---- MODULE Spec2Model ----
(***************************************************************************)
(* scripts/create_cfn_coverage_table.py: the CloudFormation coverage       *)
(* tables of a documentation page, regenerated from a coverage catalog.    *)
(*                                                                         *)
(* Text is a sequence of symbols.  A symbol is one character, written as a *)
(* one-character string; the two words the heading patterns match only as  *)
(* a whole ("Community image", "Pro image") are one symbol each, and the   *)
(* three characters of the glyph bool_formatter returns are named by their  *)
(* code points.  Positions are 1-based: position i lies before s[i], and    *)
(* Len(s) + 1 is the end of the text.                                      *)
(***************************************************************************)
EXTENDS Naturals, Sequences, FiniteSets

VARIABLES
    \* replace_content_between applied to one input, then to its own result
    r_pc, content, starting_rx, ending_rx, replacement_block, first, second

replaceVars ==
    <<r_pc, content, starting_rx, ending_rx, replacement_block, first, second>>

VARIABLES
    \* transform, then generate_table, applied to one section under one
    \* TableConfig; widths, header_cells, separators and data_cells are the
    \* locals of generate_table and of the three writers it calls
    t_pc, t_config, section_data, t_data, t_widths, header_cells, separators,
    data_cells, table

tableVars ==
    <<t_pc, t_config, section_data, t_data, t_widths, header_cells,
      separators, data_cells, table>>

VARIABLES
    \* main: its position, the two files, its locals, the error that ended
    \* it, and what it did (the calls of replace_content_between and the
    \* steps, in order); run counts the runs over the same two files and
    \* stored_at_start is the document as the current run found it
    pc, run, cfn_json, md_file, cfn_catalog, community_data, pro_data,
    community_table, pro_table, original_doc, updated_doc, error, calls,
    events, stored_at_start

driverVars ==
    <<pc, run, cfn_json, md_file, cfn_catalog, community_data, pro_data,
      community_table, pro_table, original_doc, updated_doc, error, calls,
      events, stored_at_start>>

vars == <<replaceVars, tableVars, driverVars>>

\* ------------------------------------------------------------------ text

NL == "\n"
BACKSLASH == "\\"

\* What \s matches, among the symbols of the model.
Whitespace == {" ", NL}

Min(S) == CHOOSE x \in S : \A y \in S : x <= y
Max(S) == CHOOSE x \in S : \A y \in S : x >= y

\* s[i..], the text from position i on.
From(s, i) == SubSeq(s, i, Len(s))

\* s[..i), the text before position i.
Upto(s, i) == SubSeq(s, 1, i - 1)

RECURSIVE Repeat(_, _)
Repeat(c, n) == IF n = 0 THEN <<>> ELSE <<c>> \o Repeat(c, n - 1)

\* --------------------------------------------------- regular expressions
\* A pattern is a sequence of alternatives (a|b), an alternative a sequence
\* of items.  Items: a literal symbol, \s, \s* (greedy), ^ and $ under
\* re.MULTILINE, \Z.

Lit(c) == [t |-> "lit", c |-> c]
Ws == [t |-> "ws", c |-> ""]
WsStar == [t |-> "ws*", c |-> ""]
Bol == [t |-> "bol", c |-> ""]
Eol == [t |-> "eol", c |-> ""]
Eos == [t |-> "eos", c |-> ""]
\* [^\S\n]*: blanks within a line.  No pattern of the program uses it; the
\* properties use it to name a heading line.
BlankStar == [t |-> "blank*", c |-> ""]

Hash4 == <<Lit("#"), Lit("#"), Lit("#"), Lit("#")>>

COMMUNITY_HEADING_PATTERN ==
    << Hash4 \o <<WsStar, Lit("Community image")>> >>

PRO_HEADING_PATTERN ==
    << <<Lit(NL)>> \o Hash4 \o <<WsStar, Lit("Pro image")>> >>

API_COVERAGE_HEADING_PATTERN ==
    << <<Bol, WsStar, Lit("#"), Lit("#"), Ws>>, <<Eol, Eos>> >>

\* The longest run of symbols of S in s from position i.
RECURSIVE RunLength(_, _, _)
RunLength(s, i, S) ==
    IF i <= Len(s) /\ s[i] \in S THEN 1 + RunLength(s, i + 1, S) ELSE 0

\* The positions at which a match of items[k..] that starts at position i can
\* end, in the order the backtracking matcher tries them.
RECURSIVE MatchSeq(_, _, _, _)
RECURSIVE Greedy(_, _, _, _, _)
MatchSeq(items, k, s, i) ==
    IF k > Len(items) THEN <<i>>
    ELSE LET it == items[k] IN
         CASE it.t = "lit" ->
                IF i <= Len(s) /\ s[i] = it.c
                THEN MatchSeq(items, k + 1, s, i + 1) ELSE <<>>
           [] it.t = "ws" ->
                IF i <= Len(s) /\ s[i] \in Whitespace
                THEN MatchSeq(items, k + 1, s, i + 1) ELSE <<>>
           [] it.t = "bol" ->
                IF i = 1 \/ s[i - 1] = NL
                THEN MatchSeq(items, k + 1, s, i) ELSE <<>>
           [] it.t = "eol" ->
                IF i = Len(s) + 1 \/ s[i] = NL
                THEN MatchSeq(items, k + 1, s, i) ELSE <<>>
           [] it.t = "eos" ->
                IF i = Len(s) + 1
                THEN MatchSeq(items, k + 1, s, i) ELSE <<>>
           [] it.t = "ws*" ->
                Greedy(items, k, s, i, RunLength(s, i, Whitespace))
           [] it.t = "blank*" ->
                Greedy(items, k, s, i, RunLength(s, i, Whitespace \ {NL}))

\* items[k] repeated n times, then n - 1, ..., then not at all.
Greedy(items, k, s, i, n) ==
    MatchSeq(items, k + 1, s, i + n)
        \o (IF n = 0 THEN <<>> ELSE Greedy(items, k, s, i, n - 1))

RECURSIVE MatchAlt(_, _, _, _)
MatchAlt(alts, a, s, i) ==
    IF a > Len(alts) THEN <<>>
    ELSE MatchSeq(alts[a], 1, s, i) \o MatchAlt(alts, a + 1, s, i)

\* Whether the pattern matches at position i (a lookahead, or a test).
MatchesAt(rx, s, i) == MatchAlt(rx, 1, s, i) # <<>>

\* The alternatives of group 1 of rf"(^{starting_rx}\s*\n)": the text of
\* starting_rx is pasted in, so ^ binds to its first alternative and \s*\n to
\* its last.
Group1(rx) ==
    [a \in 1..Len(rx) |->
        (IF a = 1 THEN <<Bol>> ELSE <<>>) \o rx[a]
            \o (IF a = Len(rx) THEN <<WsStar, Lit(NL)>> ELSE <<>>)]

\* (.*?)(?=ending_rx) from position h, under re.DOTALL: the first position
\* at or after h where ending_rx matches, 0 when there is none.
FirstBoundary(s, rx, h) ==
    LET Q == {q \in h..(Len(s) + 1) : MatchesAt(rx, s, q)}
    IN IF Q = {} THEN 0 ELSE Min(Q)

\* The first end of group 1, in the matcher's order, from which the lazy
\* scan finds a boundary.
RECURSIVE FirstHeading(_, _, _, _)
FirstHeading(s, rx, H, j) ==
    IF j > Len(H) THEN [found |-> FALSE, h |-> 0, q |-> 0]
    ELSE LET q == FirstBoundary(s, rx, H[j])
         IN IF q # 0 THEN [found |-> TRUE, h |-> H[j], q |-> q]
            ELSE FirstHeading(s, rx, H, j + 1)

\* The pattern tried at position p.
MatchAtPos(s, s_rx, e_rx, p) ==
    FirstHeading(s, e_rx, MatchAlt(Group1(s_rx), 1, s, p), 1)

\* pattern.search(content): the leftmost position with a match; group 1 is
\* s[p..h), group 2 is s[h..q).
Search(s, s_rx, e_rx) ==
    LET P == {p \in 1..(Len(s) + 1) : MatchAtPos(s, s_rx, e_rx, p).found}
    IN IF P = {} THEN [found |-> FALSE, p |-> 0, h |-> 0, q |-> 0]
       ELSE LET p == Min(P)
                m == MatchAtPos(s, s_rx, e_rx, p)
            IN [found |-> TRUE, p |-> p, h |-> m.h, q |-> m.q]

\* ------------------------------------------------ replacement templates
\* pattern.sub reads its replacement as a template.  Letters that are no
\* escape of the template language, among the symbols of the model.
AsciiLetters == {"d", "x", "o", "q", "S", "E", "T", "A", "B"}

\* The template's escapes that stand for one character.
TemplateEscapes == {"n", BACKSLASH}

Unescape(c) == IF c = "n" THEN NL ELSE c

\* The text a template expands to from position i on, given the two groups
\* of the match: the text up to the next backslash is literal, and the
\* backslash is read with the character after it.  Not ok when the template
\* is malformed (re.error).
RECURSIVE ExpandTemplate(_, _, _, _, _)
ExpandTemplate(tpl, i, g1, g2, acc) ==
    LET B == {j \in i..Len(tpl) : tpl[j] = BACKSLASH}
    IN IF B = {} THEN [ok |-> TRUE, text |-> acc \o SubSeq(tpl, i, Len(tpl))]
       ELSE LET b == Min(B)
                literal == acc \o SubSeq(tpl, i, b - 1)
            IN IF b = Len(tpl) THEN [ok |-> FALSE, text |-> <<>>]
               ELSE LET c == tpl[b + 1] IN
                    IF c = "1" THEN ExpandTemplate(tpl, b + 2, g1, g2, literal \o g1)
                    ELSE IF c = "2"
                    THEN ExpandTemplate(tpl, b + 2, g1, g2, literal \o g2)
                    ELSE IF c \in TemplateEscapes
                    THEN ExpandTemplate(tpl, b + 2, g1, g2,
                                        Append(literal, Unescape(c)))
                    ELSE IF c \in AsciiLetters THEN [ok |-> FALSE, text |-> <<>>]
                    ELSE ExpandTemplate(tpl, b + 2, g1, g2,
                                        literal \o <<BACKSLASH, c>>)

\* pattern.sub(replacement, content, count=1) for the match m.
Sub(s, m, replacement) ==
    LET e == ExpandTemplate(replacement, 1, SubSeq(s, m.p, m.h - 1),
                            SubSeq(s, m.h, m.q - 1), <<>>)
    IN IF ~e.ok
       THEN [ok |-> FALSE, error |-> "re.error", pattern |-> <<>>, doc |-> <<>>]
       ELSE [ok |-> TRUE, error |-> "", pattern |-> <<>>,
             doc |-> Upto(s, m.p) \o e.text \o From(s, m.q)]

\* replace_content_between without its check of the search: a document whose
\* heading is not found comes back as it is.
replace_content_between_unchecked(s, s_rx, e_rx, block) ==
    LET m == Search(s, s_rx, e_rx)
    IN IF ~m.found
       THEN [ok |-> TRUE, error |-> "", pattern |-> <<>>, doc |-> s]
       ELSE LET heading == SubSeq(s, m.p, m.h - 1)
                replacement == IF block # <<>> THEN heading \o block ELSE heading
            IN Sub(s, m, replacement)

replace_content_between(s, s_rx, e_rx, block) ==
    LET m == Search(s, s_rx, e_rx)
    IN IF ~m.found
       THEN [ok |-> FALSE, error |-> "ValueError", pattern |-> s_rx, doc |-> <<>>]
       ELSE LET heading == SubSeq(s, m.p, m.h - 1)
                replacement == IF block # <<>> THEN heading \o block ELSE heading
            IN Sub(s, m, replacement)

\* ------------------------------------------------------- ColumnConfig
\* Python values: a str is a sequence of symbols, a bool, or None.
PyStr(v) == [ty |-> "str", v |-> v, b |-> FALSE]
PyBool(b) == [ty |-> "bool", v |-> <<>>, b |-> b]
None == [ty |-> "None", v |-> <<>>, b |-> FALSE]

\* A value's truth: a bool is itself, a str is true unless empty.
Truthy(value) ==
    CASE value.ty = "bool" -> value.b
      [] value.ty = "str" -> value.v # <<>>
      [] value.ty = "None" -> FALSE

\* str(value)
Str(value) ==
    CASE value.ty = "str" -> value.v
      [] value.ty = "bool" ->
           IF value.b THEN <<"T", "r", "u", "e">> ELSE <<"F", "a", "l", "s", "e">>
      [] value.ty = "None" -> <<"N", "o", "n", "e">>

\* The three characters of the glyph, by code point.
CheckGlyph == <<"U+00E2", "U+0153", "U+2026">>

bool_formatter(value) == IF Truthy(value) THEN CheckGlyph ELSE <<"-">>

\* ColumnConfig.format_value; the formatter is bool_formatter or None.
format_value(col, value) ==
    IF col.formatter = "bool_formatter" THEN bool_formatter(value)
    ELSE IF value.ty # "None" THEN Str(value) ELSE <<"-">>

ColumnConfig(header, key, alignment, formatter) ==
    [header |-> header, key |-> key, alignment |-> alignment,
     formatter |-> formatter]

\* TableConfig.get_headers
get_headers(config) ==
    [i \in 1..Len(config.columns) |-> config.columns[i].header]

\* row.get(key, "")
RowGet(row, key) == IF key \in DOMAIN row THEN row[key] ELSE PyStr(<<>>)

\* ----------------------------------------------- MarkdownTableGenerator

\* The loop over the rows of _calculate_column_widths, for one column.
RECURSIVE ColumnWidth(_, _, _, _)
ColumnWidth(col, data, r, max_width) ==
    IF r > Len(data) THEN max_width
    ELSE LET n == Len(format_value(col, RowGet(data[r], col.key)))
         IN ColumnWidth(col, data, r + 1, IF n > max_width THEN n ELSE max_width)

\* _calculate_column_widths with max_width started at 0, not at the header's
\* length.
calculate_column_widths_rows_only(config, data) ==
    [i \in 1..Len(config.columns) |->
        ColumnWidth(config.columns[i], data, 1, 0)]

_calculate_column_widths(config, data) ==
    [i \in 1..Len(config.columns) |->
        ColumnWidth(config.columns[i], data, 1, Len(config.columns[i].header))]

\* _get_alignment_separator with width dashes, not width + 1, before the
\* colon of a right-aligned column.
get_alignment_separator_width_dashes(alignment, width) ==
    IF alignment = "right" THEN Repeat("-", width) \o <<":">>
    ELSE IF alignment = "center" THEN <<":">> \o Repeat("-", width) \o <<":">>
    ELSE Repeat("-", width)

_get_alignment_separator(alignment, width) ==
    IF alignment = "right" THEN Repeat("-", width + 1) \o <<":">>
    ELSE IF alignment = "center" THEN <<":">> \o Repeat("-", width) \o <<":">>
    ELSE Repeat("-", width)

\* str.ljust, str.rjust and str.center: the value is returned as it is when
\* it is at least width long; center puts the odd blank on the left when
\* the width is odd too.
Ljust(value, width) ==
    IF Len(value) >= width THEN value
    ELSE value \o Repeat(" ", width - Len(value))

Rjust(value, width) ==
    IF Len(value) >= width THEN value
    ELSE Repeat(" ", width - Len(value)) \o value

Center(value, width) ==
    IF Len(value) >= width THEN value
    ELSE LET marg == width - Len(value)
             left == (marg \div 2)
                        + (IF marg % 2 = 1 /\ width % 2 = 1 THEN 1 ELSE 0)
         IN Repeat(" ", left) \o value \o Repeat(" ", marg - left)

_format_cell(value, width, alignment) ==
    IF alignment = "right" THEN Rjust(value, width)
    ELSE IF alignment = "center" THEN Center(value, width)
    ELSE Ljust(value, width)

\* sep.join(parts)
RECURSIVE Join(_, _)
Join(sep, parts) ==
    IF parts = <<>> THEN <<>>
    ELSE IF Len(parts) = 1 THEN parts[1]
    ELSE parts[1] \o sep \o Join(sep, Tail(parts))

\* f"| {' | '.join(cells)} |\n"
RowLine(cells) == <<"|", " ">> \o Join(<<" ", "|", " ">>, cells) \o <<" ", "|", NL>>

\* The cells _write_header_row formats.
HeaderCells(config, widths) ==
    [i \in 1..Len(config.columns) |->
        _format_cell(get_headers(config)[i], widths[i],
                     config.columns[i].alignment)]

_write_header_row(config, widths) == RowLine(HeaderCells(config, widths))

\* The separators _write_separator_row puts together.
Separators(config, widths) ==
    [i \in 1..Len(config.columns) |->
        _get_alignment_separator(config.columns[i].alignment, widths[i])]

_write_separator_row(config, widths) ==
    <<"|">> \o Join(<<"|">>, Separators(config, widths)) \o <<"|", NL>>

\* The code points of the symbols a sort key is made of.
Ord(c) ==
    CASE c = "3" -> 51 [] c = "E" -> 69 [] c = "S" -> 83 [] c = "x" -> 120
      [] c = "A" -> 65 [] c = "W" -> 87 [] c = ":" -> 58 [] c = "B" -> 66
      [] c = "u" -> 117 [] c = "c" -> 99 [] c = "k" -> 107 [] c = "e" -> 101
      [] c = "t" -> 116 [] c = "C" -> 67 [] c = "2" -> 50
      [] c = BACKSLASH -> 92 [] c = "d" -> 100 [] c = "n" -> 110

\* a < b for two str values.
RECURSIVE StrLess(_, _)
StrLess(a, b) ==
    IF b = <<>> THEN FALSE
    ELSE IF a = <<>> THEN TRUE
    ELSE IF Ord(Head(a)) # Ord(Head(b)) THEN Ord(Head(a)) < Ord(Head(b))
    ELSE StrLess(Tail(a), Tail(b))

\* sorted(data, key=lambda x: x.get(sort_by, "")): stable, ascending.
RECURSIVE Insert(_, _, _)
Insert(sorted, row, key) ==
    IF sorted = <<>> THEN <<row>>
    ELSE LET last == sorted[Len(sorted)]
         IN IF StrLess(Str(RowGet(row, key)), Str(RowGet(last, key)))
            THEN Append(Insert(SubSeq(sorted, 1, Len(sorted) - 1), row, key), last)
            ELSE Append(sorted, row)

RECURSIVE Sorted(_, _, _)
Sorted(data, key, n) ==
    IF n = 0 THEN <<>> ELSE Insert(Sorted(data, key, n - 1), data[n], key)

\* The rows in the order _write_data_rows writes them.
RowOrder(config, data) ==
    IF config.sort_by # "None" THEN Sorted(data, config.sort_by, Len(data))
    ELSE data

\* The cells _write_data_rows formats, row by row.
DataCells(config, data, widths) ==
    LET rows == RowOrder(config, data)
    IN [r \in 1..Len(rows) |->
          [i \in 1..Len(config.columns) |->
              _format_cell(
                  format_value(config.columns[i],
                               RowGet(rows[r], config.columns[i].key)),
                  widths[i], config.columns[i].alignment)]]

RECURSIVE Lines(_)
Lines(cells) ==
    IF cells = <<>> THEN <<>> ELSE RowLine(cells[1]) \o Lines(Tail(cells))

_write_data_rows(config, data, widths) == Lines(DataCells(config, data, widths))

\* str.rstrip("\n")
RECURSIVE RstripNewlines(_)
RstripNewlines(s) ==
    IF s # <<>> /\ s[Len(s)] = NL
    THEN RstripNewlines(SubSeq(s, 1, Len(s) - 1)) ELSE s

generate_table(config, data) ==
    IF data = <<>> THEN <<>>
    ELSE LET widths == _calculate_column_widths(config, data)
             buffer == _write_header_row(config, widths)
                           \o _write_separator_row(config, widths)
                           \o _write_data_rows(config, data, widths)
         IN RstripNewlines(buffer) \o <<NL>>

\* ------------------------------------------ CloudFormationDataTransformer
\* A section is None or a dict: its items in order, each a resource type and
\* its metadata, the metadata a dict with or without "methods".

Dict(items) == [ty |-> "dict", items |-> items]
NoSection == [ty |-> "None", items |-> <<>>]

\* set(metadata.get("methods", []))
Methods(metadata) ==
    IF "methods" \in DOMAIN metadata
    THEN {metadata.methods[i] : i \in DOMAIN metadata.methods}
    ELSE {}

\* The row with the operation names compared without regard to case.
TransformRowAnyCase(item) ==
    LET methods == Methods(item.metadata)
    IN [resource |-> PyStr(item.resource_type),
        create |-> PyBool({"Create", "create"} \cap methods # {}),
        delete |-> PyBool({"Delete", "delete"} \cap methods # {}),
        update |-> PyBool({"Update", "update"} \cap methods # {})]

\* The row transform builds for one item.
TransformRow(item) ==
    LET methods == Methods(item.metadata)
    IN [resource |-> PyStr(item.resource_type),
        create |-> PyBool("Create" \in methods),
        delete |-> PyBool("Delete" \in methods),
        update |-> PyBool("Update" \in methods)]

transform(section) ==
    IF section.ty = "None" \/ section.items = <<>> THEN <<>>
    ELSE [i \in 1..Len(section.items) |-> TransformRow(section.items[i])]

\* metadata.get raises AttributeError when a resource's metadata is null.
JsonNull == [json |-> "null"]

TransformRaises(section) ==
    /\ section.ty # "None"
    /\ \E i \in 1..Len(section.items) : section.items[i].metadata = JsonNull

\* --------------------------------------- replace_content_between, applied
\* The inputs: documents put together from a community heading, a pro
\* heading and a following top-level heading, with blank lines, old content
\* and a repeated heading between and after them.

MaxBlank == 1

Blank(n) == Repeat(NL, n)

CommunityHeading == <<"#", "#", "#", "#", " ", "Community image">>
ProHeading == <<"#", "#", "#", "#", " ", "Pro image">>
ApiHeading == <<"#", "#", " ", "A">>

Bodies == {<<>>, <<"o", NL>>}

ProLines == {ProHeading \o <<NL>>, ProHeading, <<>>}

Tails ==
    {<<>>, ApiHeading \o <<NL>>,
     ApiHeading \o <<NL, NL>> \o ProHeading \o <<NL, "q", NL>>}

PageDocs ==
    {pre \o CommunityHeading \o <<NL>> \o Blank(b1) \o body1 \o Blank(b2)
         \o pro \o Blank(b3) \o body2 \o tail :
        pre \in {<<>>, <<"x", NL>>}, b1 \in 0..MaxBlank, body1 \in Bodies,
        b2 \in 0..MaxBlank, pro \in ProLines, b3 \in 0..MaxBlank,
        body2 \in Bodies, tail \in Tails}

\* The spec's example: replace("### A\nold\n### B\n", "^### A", "^### B", ..),
\* and a heading that holds a backslash, r"^### \\d".
EXAMPLE_START == << <<Bol, Lit("#"), Lit("#"), Lit("#"), Lit(" "), Lit("A")>> >>
EXAMPLE_END == << <<Bol, Lit("#"), Lit("#"), Lit("#"), Lit(" "), Lit("B")>> >>
BACKSLASH_START ==
    << <<Bol, Lit("#"), Lit("#"), Lit("#"), Lit(" "), Lit(BACKSLASH), Lit("d")>> >>

ExampleDocs ==
    {<<"#", "#", "#", " ">> \o h \o <<NL>> \o Blank(b1) \o body \o Blank(b2)
         \o <<"#", "#", "#", " ", "B", NL>> :
        h \in {<<"A">>, <<"B">>, <<BACKSLASH, "d">>}, b1 \in 0..MaxBlank,
        body \in Bodies, b2 \in 0..MaxBlank}

ReplaceInputs ==
    {<<d, COMMUNITY_HEADING_PATTERN, PRO_HEADING_PATTERN>> : d \in PageDocs}
        \cup {<<d, PRO_HEADING_PATTERN, API_COVERAGE_HEADING_PATTERN>> :
                 d \in PageDocs}
        \cup {<<d, s_rx, EXAMPLE_END>> :
                 d \in ExampleDocs, s_rx \in {EXAMPLE_START, BACKSLASH_START}}

\* The blocks: none, a table's worth of text, one that starts with a blank
\* line, one without its last newline, and ones that hold a backslash.
Blocks ==
    {<<>>, <<"T", NL>>, <<NL, "T", NL>>, <<"T">>,
     <<"T", BACKSLASH, "n", NL>>, <<"T", BACKSLASH, "d", NL>>}

NoResult == [ok |-> FALSE, error |-> "", pattern |-> <<>>, doc |-> <<>>]

IdleReplace ==
    /\ r_pc = "idle"
    /\ content = <<>>
    /\ starting_rx = <<>>
    /\ ending_rx = <<>>
    /\ replacement_block = <<>>
    /\ first = NoResult
    /\ second = NoResult

IdleTable ==
    /\ t_pc = "idle"
    /\ t_config = [columns |-> <<>>, sort_by |-> "None"]
    /\ section_data = NoSection
    /\ t_data = <<>>
    /\ t_widths = <<>>
    /\ header_cells = <<>>
    /\ separators = <<>>
    /\ data_cells = <<>>
    /\ table = <<>>

NoCatalog == [loaded |-> FALSE]

IdleDriver ==
    /\ pc = "idle"
    /\ run = 0
    /\ cfn_json = NoCatalog
    /\ md_file = <<>>
    /\ cfn_catalog = NoCatalog
    /\ community_data = <<>>
    /\ pro_data = <<>>
    /\ community_table = <<>>
    /\ pro_table = <<>>
    /\ original_doc = <<>>
    /\ updated_doc = <<>>
    /\ error = ""
    /\ calls = <<>>
    /\ events = <<>>
    /\ stored_at_start = <<>>

InitReplace ==
    /\ IdleTable
    /\ IdleDriver
    /\ \E in \in ReplaceInputs :
          /\ content = in[1]
          /\ starting_rx = in[2]
          /\ ending_rx = in[3]
    /\ replacement_block \in Blocks
    /\ r_pc = "start"
    /\ first = NoResult
    /\ second = NoResult

Replace ==
    /\ r_pc = "start"
    /\ first' = replace_content_between(content, starting_rx, ending_rx,
                                         replacement_block)
    /\ r_pc' = "replaced"
    /\ UNCHANGED <<content, starting_rx, ending_rx, replacement_block, second>>
    /\ UNCHANGED <<tableVars, driverVars>>

ReplaceAgain ==
    /\ r_pc = "replaced"
    /\ first.ok
    /\ second' = replace_content_between(first.doc, starting_rx, ending_rx,
                                          replacement_block)
    /\ r_pc' = "replaced_again"
    /\ UNCHANGED <<content, starting_rx, ending_rx, replacement_block, first>>
    /\ UNCHANGED <<tableVars, driverVars>>

NextReplace == Replace \/ ReplaceAgain

SpecReplace == InitReplace /\ [][NextReplace]_vars

\* ------------------------------------ transform and generate_table, applied

MaxRows == 2

\* "AWS::S3::Bucket", "EC2" and "S3".
Resources ==
    {<<"A", "W", "S", ":", ":", "S", "3", ":", ":", "B", "u", "c", "k", "e", "t">>,
     <<"E", "C", "2">>, <<"S", "3">>}

Metadatas ==
    {[methods |-> <<"Create", "Delete">>],
     [methods |-> <<"Create", "Delete", "Update">>],
     [methods |-> <<"Update", "Update">>],
     [methods |-> <<"create", "Read">>],
     [methods |-> <<>>],
     [description |-> "no methods"]}

Item(resource_type, metadata) ==
    [resource_type |-> resource_type, metadata |-> metadata]

\* The dicts of up to n items: no resource type twice, in every order.
RECURSIVE ItemSeqs(_)
ItemSeqs(n) ==
    IF n = 0 THEN {<<>>}
    ELSE LET shorter == ItemSeqs(n - 1)
         IN shorter \cup
            {Append(items, Item(r, m)) :
                items \in {x \in shorter : Len(x) = n - 1},
                r \in Resources, m \in Metadatas}

DistinctKeys(items) ==
    \A i, j \in 1..Len(items) :
        items[i].resource_type = items[j].resource_type => i = j

Sections ==
    {NoSection} \cup {Dict(items) : items \in {x \in ItemSeqs(MaxRows) : DistinctKeys(x)}}

\* The TableConfig main builds.
DriverTableConfig ==
    [columns |->
        <<ColumnConfig(<<"R", "e", "s", "o", "u", "r", "c", "e">>, "resource",
                       "left", "None"),
          ColumnConfig(<<"C", "r", "e", "a", "t", "e">>, "create", "right",
                       "bool_formatter"),
          ColumnConfig(<<"D", "e", "l", "e", "t", "e">>, "delete", "right",
                       "bool_formatter"),
          ColumnConfig(<<"U", "p", "d", "a", "t", "e">>, "update", "right",
                       "bool_formatter")>>,
     sort_by |-> "None"]

\* Another TableConfig: a centered column, a column without formatter over
\* a bool, a column whose key no row has, and rows sorted by resource.
SortedTableConfig ==
    [columns |->
        <<ColumnConfig(<<"I", "d">>, "resource", "center", "None"),
          ColumnConfig(<<"C", "r", "e", "a", "t", "e">>, "create", "left",
                       "None"),
          ColumnConfig(<<"N", "o", "t", "e">>, "note", "right", "None")>>,
     sort_by |-> "resource"]

TableConfigs == {DriverTableConfig, SortedTableConfig}

InitTable ==
    /\ IdleReplace
    /\ IdleDriver
    /\ t_pc = "start"
    /\ t_config \in TableConfigs
    /\ section_data \in Sections
    /\ t_data = <<>>
    /\ t_widths = <<>>
    /\ header_cells = <<>>
    /\ separators = <<>>
    /\ data_cells = <<>>
    /\ table = <<>>

Transform ==
    /\ t_pc = "start"
    /\ IF TransformRaises(section_data)
       THEN t_pc' = "failed" /\ t_data' = t_data
       ELSE t_pc' = "transformed" /\ t_data' = transform(section_data)
    /\ UNCHANGED <<t_config, section_data, t_widths, header_cells, separators,
                   data_cells, table>>
    /\ UNCHANGED <<replaceVars, driverVars>>

GenerateTable ==
    /\ t_pc = "transformed"
    /\ t_pc' = "generated"
    /\ table' = generate_table(t_config, t_data)
    /\ IF t_data = <<>>
       THEN UNCHANGED <<t_widths, header_cells, separators, data_cells>>
       ELSE /\ t_widths' = _calculate_column_widths(t_config, t_data)
            /\ header_cells' = HeaderCells(t_config, t_widths')
            /\ separators' = Separators(t_config, t_widths')
            /\ data_cells' = DataCells(t_config, t_data, t_widths')
    /\ UNCHANGED <<t_config, section_data, t_data>>
    /\ UNCHANGED <<replaceVars, driverVars>>

NextTable == Transform \/ GenerateTable

SpecTable == InitTable /\ [][NextTable]_vars

\* ------------------------------------------------------------------ main
\* The catalog file: no JSON, or an object with or without "community" and
\* "pro".

InvalidJson == [invalid |-> TRUE]

S3 == <<"S", "3">>
EC2 == <<"E", "C", "2">>

Catalogs ==
    {[version |-> "1"],
     [community |-> Dict(<<Item(S3, [methods |-> <<"Create", "Delete">>])>>)],
     [community |-> Dict(<<Item(S3, [methods |-> <<"Create", "Delete">>])>>),
      pro |-> Dict(<<Item(EC2, [methods |-> <<"Update">>])>>)],
     [pro |-> Dict(<<Item(<<"x", BACKSLASH, "d">>, [methods |-> <<"Create">>])>>)]}

BadCatalogs ==
    {InvalidJson, [community |-> Dict(<<Item(S3, JsonNull)>>)]}

\* cfn_catalog.get(key)
CatalogGet(catalog, key) ==
    IF key \in DOMAIN catalog THEN catalog[key] ELSE NoSection

\* The documents: as PageDocs, with the community heading or without, and
\* with old content or an earlier run's table under each heading.
CommunityBodies ==
    {<<"o", NL>>,
     generate_table(DriverTableConfig,
         transform(Dict(<<Item(S3, [methods |-> <<"Create", "Delete">>])>>)))}

ProBodies ==
    {<<"o", NL>>,
     generate_table(DriverTableConfig,
         transform(Dict(<<Item(EC2, [methods |-> <<"Update">>])>>)))}

DriverDocs ==
    {CommunityHeading \o <<NL>> \o Blank(b1) \o body1 \o Blank(b2) \o pro
         \o body2 \o tail :
        b1 \in 0..MaxBlank, body1 \in CommunityBodies, b2 \in 0..1,
        pro \in ProLines, body2 \in ProBodies \cup {<<>>}, tail \in Tails}
    \cup
    {body1 \o <<NL>> \o ProHeading \o <<NL>> \o tail :
        body1 \in CommunityBodies, tail \in Tails}

MaxRuns == 2

InitDriver ==
    /\ IdleReplace
    /\ IdleTable
    /\ pc = "load"
    /\ run = 1
    /\ \/ cfn_json \in Catalogs /\ md_file \in DriverDocs
       \/ /\ cfn_json \in BadCatalogs
          /\ md_file \in {d \in DriverDocs : Len(d) <= Len(CommunityHeading) + 3}
    /\ cfn_catalog = NoCatalog
    /\ community_data = <<>>
    /\ pro_data = <<>>
    /\ community_table = <<>>
    /\ pro_table = <<>>
    /\ original_doc = <<>>
    /\ updated_doc = <<>>
    /\ error = ""
    /\ calls = <<>>
    /\ events = <<>>
    /\ stored_at_start = md_file

Fail(kind, event) ==
    /\ pc' = "failed"
    /\ error' = kind
    /\ events' = Append(events, event)

\* cfn_catalog = _load_cfn_file(args.cfn_json)
LoadCfnFile ==
    /\ pc = "load"
    /\ IF cfn_json = InvalidJson
       THEN Fail("ValueError", "load_failed") /\ UNCHANGED cfn_catalog
       ELSE /\ cfn_catalog' = cfn_json
            /\ pc' = "transform"
            /\ events' = Append(events, "load")
            /\ UNCHANGED error
    /\ UNCHANGED <<run, cfn_json, md_file, community_data, pro_data,
                   community_table, pro_table, original_doc, updated_doc,
                   calls, stored_at_start>>
    /\ UNCHANGED <<replaceVars, tableVars>>

\* community_data, pro_data = data_transformer.transform(..)
TransformSections ==
    /\ pc = "transform"
    /\ IF TransformRaises(CatalogGet(cfn_catalog, "community"))
       THEN Fail("AttributeError", "transform_failed")
            /\ UNCHANGED <<community_data, pro_data>>
       ELSE /\ community_data' = transform(CatalogGet(cfn_catalog, "community"))
            /\ IF TransformRaises(CatalogGet(cfn_catalog, "pro"))
               THEN Fail("AttributeError", "transform_failed")
                    /\ UNCHANGED pro_data
               ELSE /\ pro_data' = transform(CatalogGet(cfn_catalog, "pro"))
                    /\ pc' = "generate"
                    /\ events' = Append(events, "transform")
                    /\ UNCHANGED error
    /\ UNCHANGED <<run, cfn_json, md_file, cfn_catalog, community_table,
                   pro_table, original_doc, updated_doc, calls,
                   stored_at_start>>
    /\ UNCHANGED <<replaceVars, tableVars>>

\* community_table, pro_table = table_generator.generate_table(..)
GenerateTables ==
    /\ pc = "generate"
    /\ community_table' = generate_table(DriverTableConfig, community_data)
    /\ pro_table' = generate_table(DriverTableConfig, pro_data)
    /\ pc' = "read"
    /\ events' = Append(events, "generate")
    /\ UNCHANGED <<run, cfn_json, md_file, cfn_catalog, community_data,
                   pro_data, original_doc, updated_doc, error, calls,
                   stored_at_start>>
    /\ UNCHANGED <<replaceVars, tableVars>>

\* original_doc = args.md_file.read_text(); updated_doc = original_doc
ReadDocument ==
    /\ pc = "read"
    /\ original_doc' = md_file
    /\ updated_doc' = md_file
    /\ pc' = "replace_community"
    /\ events' = Append(events, "read")
    /\ UNCHANGED <<run, cfn_json, md_file, cfn_catalog, community_data,
                   pro_data, community_table, pro_table, error, calls,
                   stored_at_start>>
    /\ UNCHANGED <<replaceVars, tableVars>>

Call(s, s_rx, result) == [content |-> s, starting_rx |-> s_rx, result |-> result]

\* updated_doc = replace_content_between(original_doc, COMMUNITY.., PRO.., ..)
ReplaceCommunity ==
    /\ pc = "replace_community"
    /\ LET r == replace_content_between(original_doc, COMMUNITY_HEADING_PATTERN,
                                        PRO_HEADING_PATTERN, community_table)
       IN /\ calls' = Append(calls, Call(original_doc, COMMUNITY_HEADING_PATTERN, r))
          /\ IF r.ok
             THEN /\ updated_doc' = r.doc
                  /\ pc' = "replace_pro"
                  /\ events' = Append(events, "replace_community")
                  /\ UNCHANGED error
             ELSE Fail(r.error, "replace_community_failed")
                  /\ UNCHANGED updated_doc
    /\ UNCHANGED <<run, cfn_json, md_file, cfn_catalog, community_data,
                   pro_data, community_table, pro_table, original_doc,
                   stored_at_start>>
    /\ UNCHANGED <<replaceVars, tableVars>>

\* updated_doc = replace_content_between(updated_doc, PRO.., API_COVERAGE.., ..)
ReplacePro ==
    /\ pc = "replace_pro"
    /\ LET r == replace_content_between(updated_doc, PRO_HEADING_PATTERN,
                                        API_COVERAGE_HEADING_PATTERN, pro_table)
       IN /\ calls' = Append(calls, Call(updated_doc, PRO_HEADING_PATTERN, r))
          /\ IF r.ok
             THEN /\ updated_doc' = r.doc
                  /\ pc' = "compare"
                  /\ events' = Append(events, "replace_pro")
                  /\ UNCHANGED error
             ELSE Fail(r.error, "replace_pro_failed")
                  /\ UNCHANGED updated_doc
    /\ UNCHANGED <<run, cfn_json, md_file, cfn_catalog, community_data,
                   pro_data, community_table, pro_table, original_doc,
                   stored_at_start>>
    /\ UNCHANGED <<replaceVars, tableVars>>

\* The last step without its comparison: the document is written in any
\* case.
WriteAlways ==
    /\ pc = "compare"
    /\ md_file' = updated_doc
    /\ events' = Append(events, "write")
    /\ pc' = "done"
    /\ UNCHANGED <<run, cfn_json, cfn_catalog, community_data, pro_data,
                   community_table, pro_table, original_doc, updated_doc,
                   error, calls, stored_at_start>>
    /\ UNCHANGED <<replaceVars, tableVars>>

\* if updated_doc != original_doc: args.md_file.write_text(updated_doc)
WriteIfChanged ==
    /\ pc = "compare"
    /\ IF updated_doc # original_doc
       THEN md_file' = updated_doc /\ events' = Append(events, "write")
       ELSE md_file' = md_file /\ events' = Append(events, "no_write")
    /\ pc' = "done"
    /\ UNCHANGED <<run, cfn_json, cfn_catalog, community_data, pro_data,
                   community_table, pro_table, original_doc, updated_doc,
                   error, calls, stored_at_start>>
    /\ UNCHANGED <<replaceVars, tableVars>>

\* The script is run again, over the same catalog and the document as the
\* run before left it.
RunAgain ==
    /\ pc = "done"
    /\ run < MaxRuns
    /\ run' = run + 1
    /\ pc' = "load"
    /\ cfn_catalog' = NoCatalog
    /\ community_data' = <<>>
    /\ pro_data' = <<>>
    /\ community_table' = <<>>
    /\ pro_table' = <<>>
    /\ original_doc' = <<>>
    /\ updated_doc' = <<>>
    /\ calls' = <<>>
    /\ events' = <<>>
    /\ stored_at_start' = md_file
    /\ UNCHANGED <<cfn_json, md_file, error>>
    /\ UNCHANGED <<replaceVars, tableVars>>

NextDriver ==
    \/ LoadCfnFile
    \/ TransformSections
    \/ GenerateTables
    \/ ReadDocument
    \/ ReplaceCommunity
    \/ ReplacePro
    \/ WriteIfChanged
    \/ RunAgain

SpecDriver == InitDriver /\ [][NextDriver]_vars

\* replace_content_between on its own and inside main.
SpecSections ==
    (InitReplace \/ InitDriver) /\ [][NextReplace \/ NextDriver]_vars

\* ------------------------------------------------------------ properties

InSeq(e, seq) == \E i \in DOMAIN seq : seq[i] = e

\* Whether the pattern matches somewhere in s.
HasMatch(rx, s) == \E p \in 1..(Len(s) + 1) : MatchesAt(rx, s, p)

\* The heading line of the first heading in s: the heading at the start of a
\* line, blanks, and the newline that ends the line.
HeadingLine(rx) == <<Bol>> \o rx[1] \o <<BlankStar, Lit(NL)>>

\* The position just after the newline that ends the first heading line, 0
\* when s has no heading line.
HeadingLineEnd(s, rx) ==
    LET P == {p \in 1..(Len(s) + 1) : MatchSeq(HeadingLine(rx), 1, s, p) # <<>>}
    IN IF P = {} THEN 0 ELSE MatchSeq(HeadingLine(rx), 1, s, Min(P))[1]

\* The first position at or after the heading line where the end pattern
\* matches, 0 when there is no heading line or no such position.
BoundaryAfterHeadingLine(s, s_rx, e_rx) ==
    IF HeadingLineEnd(s, s_rx) = 0 THEN 0
    ELSE FirstBoundary(s, e_rx, HeadingLineEnd(s, s_rx))

Replaced == r_pc \in {"replaced", "replaced_again"}

\* The positions of the newlines of a text that ends with one.
Newlines(s) == {i \in DOMAIN s : s[i] = NL}

\* Line k of the text, with the newline that ends it.
Line(s, k) ==
    LET end == CHOOSE e \in Newlines(s) :
                   Cardinality({x \in Newlines(s) : x < e}) = k - 1
        before == {x \in Newlines(s) : x < end}
    IN SubSeq(s, IF before = {} THEN 1 ELSE Max(before) + 1, end)

\* C1: when the document has the start heading line and an end boundary after
\* it, and the block is not empty, replace_content_between returns the text
\* up to and including the heading line, then the block character for
\* character, then the text from the first boundary on.
C1_ReplacesExactlyTheRegion ==
    (/\ Replaced
     /\ replacement_block # <<>>
     /\ BoundaryAfterHeadingLine(content, starting_rx, ending_rx) # 0)
    => /\ first.ok
       /\ first.doc =
            Upto(content, HeadingLineEnd(content, starting_rx))
                \o replacement_block
                \o From(content,
                        BoundaryAfterHeadingLine(content, starting_rx, ending_rx))

\* C2: when a replacement succeeds, the same replacement applied to its
\* result succeeds too and returns that result unchanged.
C2_ReplaceTwiceIsReplaceOnce ==
    r_pc = "replaced_again" => second.ok /\ second.doc = first.doc

\* C3: when the start heading pattern matches nowhere in the document,
\* replace_content_between fails with the section-not-found error that names
\* the pattern and returns no document; and when main's community
\* replacement fails, the pro replacement is not attempted and the document
\* file is not written.
SectionNotFound(s_rx) ==
    [ok |-> FALSE, error |-> "ValueError", pattern |-> s_rx, doc |-> <<>>]

C3_SectionNotFound ==
    /\ (Replaced /\ ~HasMatch(starting_rx, content))
          => first = SectionNotFound(starting_rx)
    /\ \A i \in DOMAIN calls :
          ~HasMatch(calls[i].starting_rx, calls[i].content)
              => calls[i].result = SectionNotFound(calls[i].starting_rx)
    /\ (calls # <<>> /\ ~calls[1].result.ok)
          => /\ Len(calls) = 1
             /\ pc = "failed"
             /\ error = calls[1].result.error
             /\ updated_doc = original_doc
             /\ ~InSeq("write", events)
             /\ md_file = stored_at_start

\* C3's case: main has stopped at the community replacement of a document
\* that has no community heading.
C3_Witness ==
    /\ pc = "failed"
    /\ Len(calls) = 1
    /\ ~HasMatch(COMMUNITY_HEADING_PATTERN, original_doc)
    /\ error = "ValueError"

Terminated == pc \in {"done", "failed"}

\* C4: a run writes the document file at most once and as its last step; it
\* writes it if and only if the catalog was loaded, both replacements
\* succeeded and the updated text differs from the text read; a run that
\* does not write leaves the stored document as it found it.
C4_WrittenOnceIffChanged ==
    /\ Cardinality({i \in DOMAIN events : events[i] = "write"}) <= 1
    /\ InSeq("write", events)
          => /\ events[Len(events)] = "write"
             /\ pc = "done"
             /\ md_file = updated_doc
    /\ Terminated
          => (InSeq("write", events)
                <=> /\ InSeq("load", events)
                    /\ Len(calls) = 2
                    /\ calls[1].result.ok
                    /\ calls[2].result.ok
                    /\ updated_doc # original_doc)
    /\ ~InSeq("write", events) => md_file = stored_at_start

\* C4's case: a run has ended with the changed document written.
C4_Witness ==
    /\ pc = "done"
    /\ InSeq("write", events)
    /\ md_file # stored_at_start

\* C5: transform returns no rows and generate_table the empty string for an
\* absent or empty section; and with an empty block replace_content_between
\* returns the heading line followed directly by the text from the end
\* boundary on.
C5_EmptySection ==
    /\ transform(NoSection) = <<>>
    /\ transform(Dict(<<>>)) = <<>>
    /\ generate_table(DriverTableConfig, transform(NoSection)) = <<>>
    /\ (/\ Replaced
        /\ replacement_block = <<>>
        /\ BoundaryAfterHeadingLine(content, starting_rx, ending_rx) # 0)
       => /\ first.ok
          /\ first.doc =
               Upto(content, HeadingLineEnd(content, starting_rx))
                   \o From(content,
                           BoundaryAfterHeadingLine(content, starting_rx, ending_rx))

\* The methods listed for an item, none when the field is missing.
Listed(item) ==
    IF "methods" \in DOMAIN item.metadata THEN item.metadata.methods ELSE <<>>

\* C6: transform returns one row per resource identifier, the resources of
\* the rows being the keys of the section without repetition, and a row's
\* create / delete / update is true exactly when "Create" / "Delete" /
\* "Update" is listed, letter for letter, among its resource's methods; a
\* missing methods field and unknown names give false and no error.
C6_OneRowPerResource ==
    /\ t_pc # "failed"
    /\ t_pc \in {"transformed", "generated"}
          => LET items == section_data.items
             IN /\ Len(t_data) = Len(items)
                /\ {t_data[i].resource.v : i \in DOMAIN t_data}
                      = {items[i].resource_type : i \in DOMAIN items}
                /\ Cardinality({t_data[i].resource.v : i \in DOMAIN t_data})
                      = Len(t_data)
                /\ \A i \in DOMAIN t_data :
                      \E k \in DOMAIN items :
                          /\ items[k].resource_type = t_data[i].resource.v
                          /\ t_data[i].create.b = InSeq("Create", Listed(items[k]))
                          /\ t_data[i].delete.b = InSeq("Delete", Listed(items[k]))
                          /\ t_data[i].update.b = InSeq("Update", Listed(items[k]))

\* C6's case: a section of two resources, one without a methods field and
\* one with names that differ from the tracked ones, has been transformed.
C6_Witness ==
    /\ t_pc = "transformed"
    /\ Len(t_data) = 2
    /\ \E i \in DOMAIN section_data.items :
          "methods" \notin DOMAIN section_data.items[i].metadata
    /\ \E i \in DOMAIN section_data.items :
          InSeq("create", Listed(section_data.items[i]))

\* The formatted cell values of column i, over all rows.
FormattedValues(i) ==
    {format_value(t_config.columns[i], RowGet(t_data[r], t_config.columns[i].key)) :
        r \in DOMAIN t_data}

Rendered == t_pc = "generated" /\ t_data # <<>>

\* C7: for a table of at least one row, each column's width is the greatest
\* of the header's length and the lengths of the rows' formatted values, and
\* every header cell and data cell of the rendered table is exactly that
\* long.
C7_WidthCorrect ==
    Rendered
    => /\ Len(t_widths) = Len(t_config.columns)
       /\ Len(data_cells) = Len(t_data)
       /\ \A i \in DOMAIN t_config.columns :
             LET w == Max({Len(t_config.columns[i].header)}
                              \cup {Len(v) : v \in FormattedValues(i)})
             IN /\ t_widths[i] = w
                /\ Len(header_cells[i]) = w
                /\ \A r \in DOMAIN data_cells : Len(data_cells[r][i]) = w
       /\ Cardinality(Newlines(table)) = Len(t_data) + 2
       /\ table[Len(table)] = NL
       /\ Line(table, 1) = RowLine(header_cells)
       /\ \A r \in DOMAIN data_cells : Line(table, r + 2) = RowLine(data_cells[r])

\* C7's case: a table has been rendered in which one column is as wide as
\* its header and another as wide as a row's value.
C7_Witness ==
    /\ Rendered
    /\ \E i \in DOMAIN t_widths : t_widths[i] = Len(t_config.columns[i].header)
    /\ \E i \in DOMAIN t_widths : t_widths[i] > Len(t_config.columns[i].header)

\* The separator row made of one separator per column.
SeparatorRow(seps) == <<"|">> \o Join(<<"|">>, seps) \o <<"|", NL>>

\* C8, as stated: each column's separator is a run of dashes as long as the
\* column's width, followed by a colon when right-aligned, enclosed in
\* colons when centered, and alone when left-aligned.
C8_SeparatorAsStated ==
    Rendered
    => Line(table, 2) =
         SeparatorRow(
           [i \in DOMAIN t_config.columns |->
              CASE t_config.columns[i].alignment = "right" ->
                     Repeat("-", t_widths[i]) \o <<":">>
                [] t_config.columns[i].alignment = "center" ->
                     <<":">> \o Repeat("-", t_widths[i]) \o <<":">>
                [] OTHER -> Repeat("-", t_widths[i])])

\* C8, amended: as stated, except that a right-aligned column's run of dashes
\* is one longer than the column's width.
C8_Separator ==
    Rendered
    => Line(table, 2) =
         SeparatorRow(
           [i \in DOMAIN t_config.columns |->
              CASE t_config.columns[i].alignment = "right" ->
                     Repeat("-", t_widths[i] + 1) \o <<":">>
                [] t_config.columns[i].alignment = "center" ->
                     <<":">> \o Repeat("-", t_widths[i]) \o <<":">>
                [] OTHER -> Repeat("-", t_widths[i])])

\* C8's case: a table with right-aligned columns has been rendered.
C8_Witness ==
    /\ Rendered
    /\ \E i \in DOMAIN t_config.columns : t_config.columns[i].alignment = "right"
    /\ \E i \in DOMAIN t_config.columns : t_config.columns[i].alignment = "left"

\* Whether a top-level heading ("## ") starts at or after position i.
TopLevelHeadingFrom(s, i) ==
    \E q \in i..(Len(s) + 1) :
        MatchSeq(API_COVERAGE_HEADING_PATTERN[1], 1, s, q) # <<>>

\* The position just after the first line that holds the pro heading, 0 when
\* the text has no such line.
ProHeadingLineEnd(s) ==
    HeadingLineEnd(s, << Hash4 \o <<WsStar, Lit("Pro image")>> >>)

\* C9: with main's pro patterns, a document that has a pro heading line and
\* no top-level heading after it is replaced without failure up to its end:
\* the result is the text up to and including the heading line, then the
\* block (nothing when the block is empty).
C9_EndOfDocumentFallback ==
    (/\ Replaced
     /\ starting_rx = PRO_HEADING_PATTERN
     /\ ending_rx = API_COVERAGE_HEADING_PATTERN
     /\ ProHeadingLineEnd(content) # 0
     /\ ~TopLevelHeadingFrom(content, ProHeadingLineEnd(content)))
    => /\ first.ok
       /\ first.doc = Upto(content, ProHeadingLineEnd(content)) \o replacement_block

\* C10: a second run of main, over the same catalog and the document a run
\* without error left, ends without error too, with an updated text equal to
\* the text it read, and writes nothing.
C10_SecondRunChangesNothing ==
    (run >= 2 /\ Terminated)
    => /\ pc = "done"
       /\ updated_doc = original_doc
       /\ ~InSeq("write", events)

====
